---------------------------- MODULE Spec2Model ----------------------------
(***************************************************************************)
(* A model of ruiconti/aoc22, day 5 (src/day5/src/main.rs): the crane      *)
(* simulator (CrateMover::execute_moves), the summarizer                   *)
(* (Game::find_message), the operation parser                              *)
(* (Game::extract_moves_from_game), the input splitter                     *)
(* (Game::parse_game_input) and the layout parser                          *)
(* (Game::extract_stack_contents); and of three functions of the other     *)
(* days: AssignmentPair::either_overlaps (src/day4/src/main.rs),           *)
(* RockPaperScissors::run with RoundSetup::play (src/day2/src/main.rs) and *)
(* extract_calories_per_elf (src/day1/src/main.rs).                        *)
(*                                                                         *)
(* A char is a one-character string, a &str / String / Vec<char> is a      *)
(* sequence of chars.  A Rust panic (an index out of bounds, a drain past  *)
(* the end, an unwrap of None/Err) ends the run: status names the function *)
(* that panicked and no action is enabled any more.                        *)
(***************************************************************************)
EXTENDS Integers, Sequences, FiniteSets, TLC

VARIABLES
    \* ---- CrateMover::execute_moves / Game::find_message ----
    self_stacks,    \* CrateMover.stacks: the ColumnSet the run starts from
    model,          \* CrateMover.model
    moves,          \* the instructions `for m in moves` has not taken yet:
                    \* <<m>> for a given instruction m, << >> for a free
                    \* one, which ranges over AllMoves(self_stacks)
    cur,            \* the instruction m of the latest loop iteration
    stacks_before,  \* stacks_new when the latest loop iteration began
    stacks_new,     \* the local stacks_new of execute_moves
    moves_arg,      \* the parameter moves of execute_moves, as it was passed
    status,         \* "running" | "returned" | "done" |
                    \* "panic_execute_moves" | "panic_find_message"
    message         \* what find_message returned (status = "done")

VARIABLES
    \* ---- Game::extract_moves_from_game ----
    op_lines,       \* the lines the operations text was written from
    moves_map,      \* the parameter moves_map
    lines_left,     \* the lines `for move_raw in moves_map.lines()` has not
                    \* taken yet
    move_raw,       \* the line of the latest loop iteration
    moves_before,   \* moves_out when the latest loop iteration began
    moves_out,      \* the local Vec<Move> `moves`
    em_status       \* "running" | "returned" | "panic_extract_moves"

VARIABLES
    \* ---- Game::parse_game_input ----
    input,          \* the parameter input
    stacks_raw,     \* game[0], the first String returned
    moves_raw,      \* game[1], the second String returned
    pg_status       \* "called" | "returned" | "panic_parse_game_input"

VARIABLES
    \* ---- Game::extract_stack_contents ----
    stack_raw,      \* the parameter stack_raw
    es_stacks,      \* the Vec<Vec<char>> returned (the local stacks)
    es_status       \* "called" | "returned" | "panic_extract_stack_contents"

VARIABLES
    \* ---- day 4, AssignmentPair::either_overlaps ----
    pair,           \* self: <<a, b>>, an Assignment being <<lo, hi>>
    overlaps,       \* the bool returned
    d4_status       \* "called" | "returned"

VARIABLES
    \* ---- day 2, RockPaperScissors::run ----
    rounds_setup,   \* the rounds `for round in &self.rounds_setup` has not
                    \* taken yet
    round,          \* the RoundSetup of the latest loop iteration
    round_outcome,  \* what round.play() returned in the latest iteration
    game_outcome,   \* the local game_outcome
    d2_status       \* "running" | "returned"

VARIABLES
    \* ---- day 1, extract_calories_per_elf ----
    calories_notes, \* the parameter calories_notes
    elf_calories,   \* the Vec<i32> returned
    d1_status       \* "called" | "returned" | "panic_extract_calories"

VARIABLES
    \* ---- main: find_message for each model, on one Game ----
    fresh_stacks,       \* the stacks the input draws: what a Game just made
                        \* from the same input holds
    game_stacks,        \* the stacks the Game `game` of main holds
                        \* (Game.stacks_raw, as extract_stack_contents
                        \* reads it)
    game_moves,         \* the instructions the Game holds (Game.moves_raw,
                        \* as extract_moves_from_game reads it)
    crate_mover_models, \* the vec crate_mover_models
    models_left,        \* the models `for mover_model in` has not taken yet
    mn_model,           \* mover_model: the model of the latest find_message
    mn_moves,           \* the instructions `for m in moves` has not taken yet
    mn_stacks_new,      \* the local stacks_new of execute_moves
    messages,           \* what the calls of find_message returned so far
    mn_status           \* "main" | "running" | "exit" | "panic"

VARIABLES
    \* ---- CrateMover::execute_moves, once for each model, side by side ----
    both_stacks,    \* CrateMover.stacks, the same for the two runs
    both_left,      \* how many instructions the two lists still hold
    both_cur,       \* the instruction the two loops took last
    both_new,       \* the local stacks_new of each run, by model
    both_status     \* the status of each run, by model: "running" |
                    \* "returned" | "panic_execute_moves"

simVars == <<self_stacks, model, moves, moves_arg, cur, stacks_before,
             stacks_new, status, message>>

emVars == <<op_lines, moves_map, lines_left, move_raw, moves_before,
            moves_out, em_status>>

pgVars == <<input, stacks_raw, moves_raw, pg_status>>

esVars == <<stack_raw, es_stacks, es_status>>

d4Vars == <<pair, overlaps, d4_status>>

d2Vars == <<rounds_setup, round, round_outcome, game_outcome, d2_status>>

d1Vars == <<calories_notes, elf_calories, d1_status>>

mnVars == <<fresh_stacks, game_stacks, game_moves, crate_mover_models,
            models_left, mn_model, mn_moves, mn_stacks_new, messages,
            mn_status>>

boVars == <<both_stacks, both_left, both_cur, both_new, both_status>>

vars == <<simVars, emVars, pgVars, esVars, d4Vars, d2Vars, d1Vars, mnVars,
          boVars>>

\* what an action of one function leaves alone: the state of the others
notSim == <<emVars, pgVars, esVars, d4Vars, d2Vars, d1Vars,
            mnVars, boVars>>

notEm == <<simVars, pgVars, esVars, d4Vars, d2Vars, d1Vars,
           mnVars, boVars>>

notPg == <<simVars, emVars, esVars, d4Vars, d2Vars, d1Vars,
           mnVars, boVars>>

notEs == <<simVars, emVars, pgVars, d4Vars, d2Vars, d1Vars,
           mnVars, boVars>>

notD4 == <<simVars, emVars, pgVars, esVars, d2Vars, d1Vars,
           mnVars, boVars>>

notD2 == <<simVars, emVars, pgVars, esVars, d4Vars, d1Vars,
           mnVars, boVars>>

notD1 == <<simVars, emVars, pgVars, esVars, d4Vars, d2Vars,
           mnVars, boVars>>

notMn == <<simVars, emVars, pgVars, esVars, d4Vars, d2Vars, d1Vars, boVars>>

notBo == <<simVars, emVars, pgVars, esVars, d4Vars, d2Vars, d1Vars, mnVars>>

-----------------------------------------------------------------------------
(* Bounds of the model.                                                    *)
MaxMoves == 3       \* longest list of free instructions
MaxAmount == 5      \* largest quantity of a free instruction

-----------------------------------------------------------------------------
(* Sequence helpers (the std operations the code calls).                   *)

\* Vec::reverse / the order an iterator is consumed back to front
RECURSIVE Reverse(_)
Reverse(s) == IF s = <<>> THEN <<>> ELSE Reverse(Tail(s)) \o <<Head(s)>>

\* the first n elements of s (n <= Len(s))
Take(s, n) == SubSeq(s, 1, n)

\* s without its first n elements (n <= Len(s))
Drop(s, n) == SubSeq(s, n + 1, Len(s))

\* a variant of Insert0: Vec::push, the item goes to the bottom
InsertAtEnd(stack, item) == stack \o <<item>>

\* Vec::insert(0, item)
Insert0(stack, item) == <<item>> \o stack

-----------------------------------------------------------------------------
(* CrateMoverModel, Move                                                   *)

CrateMoverModel == {"Model9000", "Model9001"}

Move(amount, from, to) == [amount |-> amount, from |-> from, to |-> to]

\* cur before the first loop iteration
NoMove == [amount |-> 0 - 1, from |-> 0 - 1, to |-> 0 - 1]

\* a variant of InsertEach: the first item is left out
\* (`for item in items_to_move.into_iter().skip(1)`)
InsertEachButFirst(stack, items) ==
    IF items = <<>> THEN stack ELSE Reverse(Tail(items)) \o stack

\* a variant of InsertEach: the destination is emptied first
\* (`stacks_new[m.to - 1].clear()` before the loop)
InsertEachIntoEmpty(stack, items) == Reverse(items)

\* `for item in items_to_move { stacks_new[m.to - 1].insert(0, item); }`
RECURSIVE InsertEach(_, _)
InsertEach(stack, items) ==
    IF items = <<>> THEN stack
    ELSE InsertEach(Insert0(stack, Head(items)), Tail(items))

\* a variant of ItemsInInsertionOrder: the arms of the match swapped
ItemsArmsSwapped(mover_model, items_to_move) ==
    IF mover_model = "Model9000" THEN Reverse(items_to_move) ELSE items_to_move

\* variants of ItemsInInsertionOrder: the reversal in both arms of the
\* match, and in neither
ItemsAlwaysReversed(mover_model, items_to_move) == Reverse(items_to_move)

ItemsNeverReversed(mover_model, items_to_move) == items_to_move

\* the match on self.model: Model9001 reverses items_to_move first
ItemsInInsertionOrder(mover_model, items_to_move) ==
    IF mover_model = "Model9001" THEN Reverse(items_to_move) ELSE items_to_move

\* stacks_new[m.from - 1] is a valid index: m.from - 1 does not underflow
\* (a panic in a debug build, usize::MAX in a release build, which is out of
\* bounds as well) and is below the number of stacks
FromInRange(stacks, m) == m.from >= 1 /\ m.from <= Len(stacks)

\* the same for stacks_new[m.to - 1]
ToInRange(stacks, m) == m.to >= 1 /\ m.to <= Len(stacks)

\* drain(..m.amount) panics when the range end is past the length
DrainInRange(stacks, m) == m.amount <= Len(stacks[m.from])

\* The loop body reaches its end without a panic.  stacks_new[m.to - 1] is
\* only evaluated inside `for item in items_to_move`, once per item: with no
\* item to move it is never evaluated.
MoveSucceeds(stacks, m) ==
    /\ FromInRange(stacks, m)
    /\ DrainInRange(stacks, m)
    /\ (m.amount > 0 => ToInRange(stacks, m))

\* a variant of AfterDrain: the units are copied, the source keeps them
\* (`[..m.amount].to_vec()` in place of `drain(..m.amount)`)
AfterCopy(stacks, m) == stacks

\* stacks_new after `stacks_new[m.from - 1].drain(..m.amount)`
AfterDrain(stacks, m) ==
    [stacks EXCEPT ![m.from] = Drop(stacks[m.from], m.amount)]

\* a variant of AfterMove: the moved units become a new last column
\* (`stacks_new.push(items_to_move)`)
AfterMoveAsNewColumn(stacks, m, mover_model) ==
    Append(AfterDrain(stacks, m), Take(stacks[m.from], m.amount))

\* a variant of AfterMove: the destination is read from the stacks as they
\* were before the drain
AfterMoveFromSnapshot(stacks, m, mover_model) ==
    LET items_to_move == Take(stacks[m.from], m.amount)
        drained == AfterDrain(stacks, m)
    IN  IF m.amount = 0 THEN drained
        ELSE [drained EXCEPT ![m.to] =
                 InsertEach(stacks[m.to],
                            ItemsInInsertionOrder(mover_model, items_to_move))]

\* a variant of AfterMove: the Model9001 arm reverses items_to_move and has
\* no loop that inserts them
AfterMoveNoInsert9001(stacks, m, mover_model) ==
    IF m.amount = 0 \/ mover_model = "Model9001" THEN AfterDrain(stacks, m)
    ELSE [AfterDrain(stacks, m) EXCEPT ![m.to] =
             InsertEach(AfterDrain(stacks, m)[m.to],
                        Take(stacks[m.from], m.amount))]

\* stacks_new at the end of a loop body that did not panic
AfterMove(stacks, m, mover_model) ==
    LET items_to_move == Take(stacks[m.from], m.amount)
        drained == AfterDrain(stacks, m)
    IN  IF m.amount = 0 THEN drained
        ELSE [drained EXCEPT ![m.to] =
                 InsertEach(drained[m.to],
                            ItemsInInsertionOrder(mover_model, items_to_move))]

\* stacks_new when the loop body panics: what the body had done by then
AtPanic(stacks, m) ==
    IF FromInRange(stacks, m) /\ DrainInRange(stacks, m)
    THEN AfterDrain(stacks, m)
    ELSE stacks

-----------------------------------------------------------------------------
(* The inputs of the simulator.                                            *)

Scenario1Stacks == << <<"N", "Z">>, <<"D", "C", "M">>, <<"P">> >>

InitialStacks ==
    { Scenario1Stacks,
      << <<"A", "B", "C">>, <<>>, <<"D">> >>,
      << <<"A", "B">>, <<"C">> >> }

Scenario1Moves ==
    << Move(1, 2, 1), Move(3, 1, 3), Move(2, 2, 1), Move(1, 1, 2) >>

\* every instruction over the columns of stacks, the indices 0 and
\* Len(stacks) + 1 (out of range) included
AllMoves(stacks) ==
    { Move(a, f, t) : a \in 0..MaxAmount,
                      f \in 0..(Len(stacks) + 1),
                      t \in 0..(Len(stacks) + 1) }

\* a list of k free instructions
FreeMoves(k) == [i \in 1..k |-> << >>]

\* a given list of instructions
GivenMoves(list) == [i \in 1..Len(list) |-> <<list[i]>>]

\* the values the next instruction of the list ranges over
NextMoves(stacks, list) ==
    IF Head(list) = << >> THEN AllMoves(stacks) ELSE {Head(list)[1]}

\* CrateMover::execute_moves as a function: what the CrateMover of the
\* stacks and the model returns for the list of instructions, or that it
\* panics and after how many instructions that did not
RECURSIVE ExecuteMovesOf(_, _, _, _)
ExecuteMovesOf(stacks, list, mover_model, applied) ==
    IF list = <<>>
    THEN [panicked |-> FALSE, stacks |-> stacks, applied |-> applied]
    ELSE IF ~ MoveSucceeds(stacks, Head(list))
    THEN [panicked |-> TRUE, stacks |-> <<>>, applied |-> applied]
    ELSE ExecuteMovesOf(AfterMove(stacks, Head(list), mover_model),
                        Tail(list), mover_model, applied + 1)

\* ColumnSets with an empty column, for the round trips
RoundTripStacks ==
    { << <<"A", "B", "C">>, <<>>, <<"D">> >>,
      << <<>>, <<"A", "B">> >>,
      << <<"A", "B", "C", "D">>, <<>>, <<>> >> }

\* "move n from a to b, move n from b to a" for every column a of stacks, of
\* length n, and every other column b that is empty
RoundTripMoves(stacks) ==
    UNION { { << Move(Len(stacks[a]), a, b), Move(Len(stacks[a]), b, a) >> :
                 b \in { c \in 1..Len(stacks) : c # a /\ stacks[c] = <<>> } } :
            a \in 1..Len(stacks) }

\* a variant of Clone: as many stacks, all empty
\* (`resize(self.stacks.len(), Vec::new())`)
EmptyLike(stacks) == [i \in 1..Len(stacks) |-> <<>>]

\* Vec::clone
Clone(stacks) == stacks

\* the simulator is not run
SimIdle ==
    /\ self_stacks = << >>
    /\ model = "Model9000"
    /\ moves = << >>
    /\ moves_arg = << >>
    /\ cur = NoMove
    /\ stacks_before = << >>
    /\ stacks_new = << >>
    /\ status = "idle"
    /\ message = << >>

\* the operation parser is not run
EmIdle ==
    /\ op_lines = << >>
    /\ moves_map = << >>
    /\ lines_left = << >>
    /\ move_raw = << >>
    /\ moves_before = << >>
    /\ moves_out = << >>
    /\ em_status = "idle"

\* the input splitter is not run
PgIdle ==
    /\ input = << >>
    /\ stacks_raw = << >>
    /\ moves_raw = << >>
    /\ pg_status = "idle"

\* the layout parser is not run
EsIdle ==
    /\ stack_raw = << >>
    /\ es_stacks = << >>
    /\ es_status = "idle"

\* day 4 is not run
D4Idle ==
    /\ pair = << >>
    /\ overlaps = FALSE
    /\ d4_status = "idle"

\* day 2 is not run
D2Idle ==
    /\ rounds_setup = << >>
    /\ round = << >>
    /\ round_outcome = << >>
    /\ game_outcome = << >>
    /\ d2_status = "idle"

\* day 1 is not run
D1Idle ==
    /\ calories_notes = << >>
    /\ elf_calories = << >>
    /\ d1_status = "idle"

\* main is not run
MnIdle ==
    /\ fresh_stacks = << >>
    /\ game_stacks = << >>
    /\ game_moves = << >>
    /\ crate_mover_models = << >>
    /\ models_left = << >>
    /\ mn_model = "none"
    /\ mn_moves = << >>
    /\ mn_stacks_new = << >>
    /\ messages = << >>
    /\ mn_status = "idle"

\* the two runs side by side are not run
BoIdle ==
    /\ both_stacks = << >>
    /\ both_left = 0
    /\ both_cur = << >>
    /\ both_new = << >>
    /\ both_status = << >>

\* only the simulator and the summarizer are run
OnlySim ==
    EmIdle /\ PgIdle /\ EsIdle /\ D4Idle /\ D2Idle /\ D1Idle /\ MnIdle /\ BoIdle

\* only the operation parser is run
OnlyEm ==
    SimIdle /\ PgIdle /\ EsIdle /\ D4Idle /\ D2Idle /\ D1Idle /\ MnIdle /\ BoIdle

\* only the input splitter is run
OnlyPg ==
    SimIdle /\ EmIdle /\ EsIdle /\ D4Idle /\ D2Idle /\ D1Idle /\ MnIdle /\ BoIdle

\* only the layout parser is run
OnlyEs ==
    SimIdle /\ EmIdle /\ PgIdle /\ D4Idle /\ D2Idle /\ D1Idle /\ MnIdle /\ BoIdle

\* only day 4 is run
OnlyD4 ==
    SimIdle /\ EmIdle /\ PgIdle /\ EsIdle /\ D2Idle /\ D1Idle /\ MnIdle /\ BoIdle

\* only day 2 is run
OnlyD2 ==
    SimIdle /\ EmIdle /\ PgIdle /\ EsIdle /\ D4Idle /\ D1Idle /\ MnIdle /\ BoIdle

\* only day 1 is run
OnlyD1 ==
    SimIdle /\ EmIdle /\ PgIdle /\ EsIdle /\ D4Idle /\ D2Idle /\ MnIdle /\ BoIdle

\* only main is run
OnlyMn ==
    SimIdle /\ EmIdle /\ PgIdle /\ EsIdle /\ D4Idle /\ D2Idle /\ D1Idle /\ BoIdle

\* only the two runs side by side are run
OnlyBo ==
    SimIdle /\ EmIdle /\ PgIdle /\ EsIdle /\ D4Idle /\ D2Idle /\ D1Idle /\ MnIdle

InitSim ==
    /\ OnlySim
    /\ \/ /\ self_stacks \in InitialStacks
          /\ moves \in { FreeMoves(k) : k \in 0..MaxMoves }
                       \cup { GivenMoves(Scenario1Moves) }
       \/ /\ self_stacks \in RoundTripStacks
          /\ moves \in { GivenMoves(l) : l \in RoundTripMoves(self_stacks) }
    /\ model \in CrateMoverModel
    /\ moves_arg = moves
    /\ cur = NoMove
    /\ stacks_before = self_stacks
    /\ stacks_new = Clone(self_stacks)   \* let mut stacks_new = self.stacks.clone()
    /\ status = "running"
    /\ message = <<>>

-----------------------------------------------------------------------------
(* A variant of ExecuteMove: the drain is clamped to the column's length   *)
(* (drain(..min(m.amount, len))) instead of panicking.                     *)
ExecuteMoveClamped ==
    /\ status = "running"
    /\ moves # <<>>
    /\ \E m \in NextMoves(self_stacks, moves) :
          LET n == IF FromInRange(stacks_new, m)
                      /\ m.amount > Len(stacks_new[m.from])
                   THEN Len(stacks_new[m.from]) ELSE m.amount
              c == Move(n, m.from, m.to)
          IN  /\ cur' = m
              /\ stacks_before' = stacks_new
              /\ IF MoveSucceeds(stacks_new, c)
                 THEN /\ stacks_new' = AfterMove(stacks_new, c, model)
                      /\ status' = "running"
                 ELSE /\ stacks_new' = AtPanic(stacks_new, c)
                      /\ status' = "panic_execute_moves"
    /\ moves' = Tail(moves)
    /\ UNCHANGED <<self_stacks, model, moves_arg, message, notSim>>

(* CrateMover::execute_moves: one iteration of `for m in moves`.           *)
ExecuteMove ==
    /\ status = "running"
    /\ moves # <<>>
    /\ \E m \in NextMoves(self_stacks, moves) :
          /\ cur' = m
          /\ stacks_before' = stacks_new
          /\ IF MoveSucceeds(stacks_new, m)
             THEN /\ stacks_new' = AfterMove(stacks_new, m, model)
                  /\ status' = "running"
             ELSE /\ stacks_new' = AtPanic(stacks_new, m)
                  /\ status' = "panic_execute_moves"
    /\ moves' = Tail(moves)
    /\ UNCHANGED <<self_stacks, model, moves_arg, message, notSim>>

(* CrateMover::execute_moves returns stacks_new when the list is exhausted *)
(* (Game::execute_moves wraps it in a CrateMover).                         *)
ReturnStacks ==
    /\ status = "running"
    /\ moves = <<>>
    /\ status' = "returned"
    /\ UNCHANGED <<self_stacks, model, moves, moves_arg, cur, stacks_before,
                   stacks_new, message, notSim>>

\* stack[0] of every stack is a valid index
AllNonEmpty(stacks) == \A i \in 1..Len(stacks) : stacks[i] # <<>>

\* a variant of TopOfEach: the last unit of each stack
BottomOfEach(stacks) == [i \in 1..Len(stacks) |-> stacks[i][Len(stacks[i])]]

\* the message Vec<char> collected into a String
TopOfEach(stacks) == [i \in 1..Len(stacks) |-> stacks[i][1]]

(* A variant of FindMessage: an empty stack is skipped.                     *)
FindMessageSkippingEmpty ==
    /\ status = "returned"
    /\ message' = TopOfEach(SelectSeq(stacks_new, LAMBDA st : st # <<>>))
    /\ status' = "done"
    /\ UNCHANGED <<self_stacks, model, moves, moves_arg, cur, stacks_before,
                   stacks_new, notSim>>

(* Game::find_message on the stacks execute_moves returned: stack[0] panics *)
(* on the first empty stack.                                                *)
FindMessage ==
    /\ status = "returned"
    /\ IF AllNonEmpty(stacks_new)
       THEN /\ message' = TopOfEach(stacks_new)
            /\ status' = "done"
       ELSE /\ message' = message
            /\ status' = "panic_find_message"
    /\ UNCHANGED <<self_stacks, model, moves, moves_arg, cur, stacks_before,
                   stacks_new, notSim>>

NextSim == ExecuteMove \/ ReturnStacks \/ FindMessage

SpecSim == InitSim /\ [][NextSim]_vars

-----------------------------------------------------------------------------
(* Properties of the simulator and the summarizer.                         *)

\* the latest loop iteration handled an instruction whose source and
\* destination are different in-range columns and whose quantity the source
\* column could supply
ValidMove ==
    /\ cur # NoMove
    /\ cur.from \in 1..Len(stacks_before)
    /\ cur.to \in 1..Len(stacks_before)
    /\ cur.from # cur.to
    /\ cur.amount <= Len(stacks_before[cur.from])

\* find_message ran on the stacks execute_moves returned
Summarized == status \in {"done", "panic_find_message"}

\* C1: under Model9000, after an instruction whose source and destination are
\* different in-range columns and whose quantity q is at most the source
\* column's length, the destination column is the first q units of the source
\* column reversed, followed by the destination's previous contents.
C1_Model9000Reverses ==
    (model = "Model9000" /\ ValidMove) =>
        /\ status # "panic_execute_moves"
        /\ stacks_new[cur.to] =
              Reverse(Take(stacks_before[cur.from], cur.amount))
                 \o stacks_before[cur.to]

C1_Witness ==
    /\ model = "Model9000"
    /\ ValidMove
    /\ cur.amount >= 3
    /\ stacks_before[cur.to] # <<>>
    /\ status = "running"

\* C2: under Model9001, after such an instruction the destination column is
\* the first q units of the source column in their original order, followed
\* by the destination's previous contents.
C2_Model9001Preserves ==
    (model = "Model9001" /\ ValidMove) =>
        /\ status # "panic_execute_moves"
        /\ stacks_new[cur.to] =
              Take(stacks_before[cur.from], cur.amount) \o stacks_before[cur.to]

C2_Witness ==
    /\ model = "Model9001"
    /\ ValidMove
    /\ cur.amount >= 3
    /\ stacks_before[cur.to] # <<>>
    /\ status = "running"

\* the run of Scenario 1
Scenario1 ==
    /\ self_stacks = Scenario1Stacks
    /\ moves_arg = GivenMoves(Scenario1Moves)

\* C3: Scenario 1 (columns [N,Z], [D,C,M], [P]; move 1 from 2 to 1, move 3
\* from 1 to 3, move 2 from 2 to 1, move 1 from 1 to 2) does not panic and
\* its message is "CMZ" under Model9000 and "MCD" under Model9001.
C3_Scenario1Message ==
    Scenario1 =>
        /\ status \notin {"panic_execute_moves", "panic_find_message"}
        /\ status = "done" =>
              message = IF model = "Model9000" THEN <<"C", "M", "Z">>
                                               ELSE <<"M", "C", "D">>

C3_Witness ==
    /\ Scenario1
    /\ model = "Model9001"
    /\ status = "done"
    /\ message = <<"M", "C", "D">>

\* C4: when every column of the final ColumnSet is non-empty, the message has
\* one character per column, the i-th being the top unit of the i-th column.
C4_MessageIsTops ==
    (Summarized /\ \A i \in 1..Len(stacks_new) : stacks_new[i] # <<>>) =>
        /\ status = "done"
        /\ Len(message) = Len(stacks_new)
        /\ \A i \in 1..Len(stacks_new) : message[i] = Head(stacks_new[i])

C4_Witness ==
    /\ status = "done"
    /\ Len(message) = 3
    /\ \E i \in 1..Len(stacks_new) : Len(stacks_new[i]) >= 2
    /\ stacks_new # self_stacks

\* C5: when at least one column of the final ColumnSet is empty, find_message
\* panics and returns no message, also when earlier columns are non-empty.
C5_EmptyColumnPanics ==
    (Summarized /\ \E i \in 1..Len(stacks_new) : stacks_new[i] = <<>>) =>
        /\ status = "panic_find_message"
        /\ message = <<>>

C5_Witness ==
    /\ status = "panic_find_message"
    /\ stacks_new[1] # <<>>
    /\ \E i \in 2..Len(stacks_new) : stacks_new[i] = <<>>

\* C6: an instruction whose quantity exceeds the current length of its source
\* column aborts the run at that instruction: no stacks are returned, no
\* message is produced and no later instruction is handled.
C6_InsufficientUnitsAborts ==
    (/\ cur # NoMove
     /\ cur.from \in 1..Len(stacks_before)
     /\ cur.amount > Len(stacks_before[cur.from])) =>
        /\ status = "panic_execute_moves"
        /\ message = <<>>
        /\ stacks_new = stacks_before

C6_Witness ==
    /\ status = "panic_execute_moves"
    /\ cur.from \in 1..Len(stacks_before)
    /\ cur.amount = 5
    /\ Len(stacks_before[cur.from]) = 2
    /\ moves # <<>>

\* C7 (as claimed): every instruction whose source or destination lies
\* outside 1..(number of columns) aborts the run, for every quantity,
\* quantity 0 included.
C7_OutOfRangeAborts ==
    (/\ cur # NoMove
     /\ \/ cur.from \notin 1..Len(stacks_before)
        \/ cur.to \notin 1..Len(stacks_before)) =>
        status = "panic_execute_moves"

\* the run is a round trip: "move n from a to b, move n from b to a", a of
\* length n and b another, empty column
RoundTrip ==
    /\ Len(moves_arg) = 2
    /\ moves_arg[1] # << >>
    /\ moves_arg[2] # << >>
    /\ LET m1 == moves_arg[1][1]
           m2 == moves_arg[2][1]
       IN  /\ m1.from \in 1..Len(self_stacks)
           /\ m1.to \in 1..Len(self_stacks)
           /\ m1.from # m1.to
           /\ self_stacks[m1.to] = <<>>
           /\ m1.amount = Len(self_stacks[m1.from])
           /\ m2 = Move(m1.amount, m1.to, m1.from)

\* C13: for a column A of length n and a different, empty column B, "move n
\* from A to B" and then "move n from B to A" does not panic and returns a
\* ColumnSet equal to the initial one, under Model9001 and under Model9000.
C13_RoundTripRestores ==
    RoundTrip =>
        /\ status # "panic_execute_moves"
        /\ moves = <<>> => stacks_new = self_stacks

C13_Witness ==
    /\ RoundTrip
    /\ model = "Model9000"
    /\ status = "returned"
    /\ cur.amount >= 3
    /\ stacks_before # self_stacks

\* C14: with an empty instruction list execute_moves returns a ColumnSet
\* equal to the initial one, in both execution modes.
C14_NoMovesNoChange ==
    (moves_arg = <<>> /\ status \in {"returned", "done", "panic_find_message"})
        => stacks_new = self_stacks

C14_Witness ==
    /\ moves_arg = <<>>
    /\ status = "returned"
    /\ model = "Model9001"
    /\ \E i \in 1..Len(self_stacks) : Len(self_stacks[i]) >= 2

\* C18: after a successfully applied instruction with source different from
\* destination, the source column is its previous contents without the
\* first quantity units, the destination column is quantity units longer and
\* ends with its previous contents, and every other column is unchanged.
C18_MoveFrame ==
    ValidMove =>
        /\ status # "panic_execute_moves"
        /\ Len(stacks_new) = Len(stacks_before)
        /\ stacks_new[cur.from] =
              SubSeq(stacks_before[cur.from], cur.amount + 1,
                     Len(stacks_before[cur.from]))
        /\ Len(stacks_new[cur.from]) = Len(stacks_before[cur.from]) - cur.amount
        /\ Len(stacks_new[cur.to]) = Len(stacks_before[cur.to]) + cur.amount
        /\ SubSeq(stacks_new[cur.to], cur.amount + 1, Len(stacks_new[cur.to]))
              = stacks_before[cur.to]
        /\ \A i \in 1..Len(stacks_before) :
              i \notin {cur.from, cur.to} => stacks_new[i] = stacks_before[i]

C18_Witness ==
    /\ ValidMove
    /\ status = "running"
    /\ Len(stacks_before) = 3
    /\ cur.amount = 2
    /\ Len(stacks_before[cur.from]) >= 3
    /\ stacks_before[cur.to] # <<>>
    /\ \E i \in 1..3 : i \notin {cur.from, cur.to} /\ stacks_before[i] # <<>>

\* C19: after any sequence of successfully applied instructions, in either
\* mode, the ColumnSet has as many columns as the initial ColumnSet.
C19_ColumnCountFixed ==
    status \in {"running", "returned", "done", "panic_find_message"} =>
        Len(stacks_new) = Len(self_stacks)

C19_Witness ==
    /\ status = "returned"
    /\ Len(moves_arg) = 3
    /\ Len(stacks_new) = 3
    /\ \E i \in 1..3 : stacks_new[i] = <<>> /\ self_stacks[i] # <<>>

\* C20: an instruction whose source and destination are the same in-range
\* column, with quantity q at most that column's length, is applied without
\* error: under Model9001 the ColumnSet is unchanged, under Model9000 the top
\* q units of that column are reversed in place; the rest of that column and
\* all other columns are unchanged.
C20_SelfMove ==
    (/\ cur # NoMove
     /\ cur.from \in 1..Len(stacks_before)
     /\ cur.to = cur.from
     /\ cur.amount <= Len(stacks_before[cur.from])) =>
        /\ status # "panic_execute_moves"
        /\ model = "Model9001" => stacks_new = stacks_before
        /\ model = "Model9000" =>
              /\ Len(stacks_new) = Len(stacks_before)
              /\ stacks_new[cur.from] =
                    Reverse(SubSeq(stacks_before[cur.from], 1, cur.amount))
                       \o SubSeq(stacks_before[cur.from], cur.amount + 1,
                                 Len(stacks_before[cur.from]))
              /\ \A i \in 1..Len(stacks_before) :
                    i # cur.from => stacks_new[i] = stacks_before[i]

C20_Witness ==
    /\ model = "Model9000"
    /\ cur # NoMove
    /\ cur.from \in 1..Len(stacks_before)
    /\ cur.to = cur.from
    /\ cur.amount = 2
    /\ Len(stacks_before[cur.from]) = 3
    /\ status = "running"

\* how many times the unit u is in the stacks
RECURSIVE CountOf(_, _)
CountOf(columns, u) ==
    IF columns = <<>> THEN 0
    ELSE Cardinality({ i \in 1..Len(Head(columns)) : Head(columns)[i] = u })
            + CountOf(Tail(columns), u)

\* the units of the stacks
UnitsOf(columns) ==
    UNION { { columns[i][j] : j \in 1..Len(columns[i]) } : i \in 1..Len(columns) }

\* C22: after any sequence of successfully applied instructions, in either
\* mode, self-moves and quantity-0 instructions included, every unit is in
\* the columns as many times as it is in the initial ColumnSet: no unit is
\* lost, duplicated or created.
C22_UnitsConserved ==
    status \in {"running", "returned", "done", "panic_find_message"} =>
        /\ UnitsOf(stacks_new) = UnitsOf(self_stacks)
        /\ \A u \in UnitsOf(self_stacks) :
              CountOf(stacks_new, u) = CountOf(self_stacks, u)

\* a self-move of two units, after two other instructions that moved a unit
C22_Witness ==
    /\ status = "returned"
    /\ Len(moves_arg) = 3
    /\ cur.from = cur.to
    /\ cur.amount = 2
    /\ stacks_new # stacks_before
    /\ stacks_before # self_stacks
    /\ \E i \in 1..Len(self_stacks) : Len(stacks_before[i]) = Len(self_stacks[i]) + 1


\* C24: under Model9000, for source different from destination and quantity
\* q at most the source column's length, "move q from s to d" yields the
\* ColumnSet that q instructions "move 1 from s to d" in a row yield.
C24_Model9000OneAtATime ==
    (ValidMove /\ model = "Model9000") =>
        /\ status # "panic_execute_moves"
        /\ ExecuteMovesOf(stacks_before,
                          [i \in 1..cur.amount |-> Move(1, cur.from, cur.to)],
                          "Model9000", 0)
              = [panicked |-> FALSE, stacks |-> stacks_new,
                 applied |-> cur.amount]

C24_Witness ==
    /\ ValidMove
    /\ model = "Model9000"
    /\ status = "running"
    /\ cur.amount = 3
    /\ stacks_before[cur.to] # <<>>
    /\ Len(stacks_before[cur.from]) > 3

-----------------------------------------------------------------------------
(* Text: str::lines, join, char classes.  The texts of the model hold no   *)
(* carriage return, and their numbers are far below usize::MAX.            *)

NL == "\n"

SP == " "

\* a digit that is not an ASCII digit: ARABIC-INDIC DIGIT THREE (U+0663)
ArabicThree == "U+0663"

AsciiDigits == {"0", "1", "2", "3", "4", "5", "6", "7", "8", "9"}

\* a variant of IsDigit: the class \w (letters and digits) in place of \d
IsWordChar(c) == c \notin {SP, NL}

\* the class \d of the regex crate: Unicode is on by default, so \d is
\* \p{Nd}, every decimal digit of every script
IsDigit(c) == c \in AsciiDigits \cup {ArabicThree}

\* char::is_whitespace for the chars of the model
IsWhitespace(c) == c \in {SP, NL}

\* str::trim().is_empty()
TrimIsEmpty(line) == \A i \in 1..Len(line) : IsWhitespace(line[i])

\* the index of the first c in text from index i on, Len(text) + 1 if none
RECURSIVE Find(_, _, _)
Find(text, c, i) ==
    IF i > Len(text) THEN Len(text) + 1
    ELSE IF text[i] = c THEN i
    ELSE Find(text, c, i + 1)

\* str::split('\n'): the pieces between the newlines, at least one
RECURSIVE SplitNL(_)
SplitNL(text) ==
    LET i == Find(text, NL, 1)
    IN  IF i > Len(text) THEN <<text>>
        ELSE <<SubSeq(text, 1, i - 1)>> \o SplitNL(SubSeq(text, i + 1, Len(text)))

\* str::lines(): the pieces between the newlines; an empty last piece (the
\* text is empty or ends with a newline) is no line
Lines(text) ==
    LET pieces == SplitNL(text)
    IN  IF pieces[Len(pieces)] = << >>
        THEN SubSeq(pieces, 1, Len(pieces) - 1)
        ELSE pieces

\* [&str]::join("\n")
RECURSIVE Join(_)
Join(lines) ==
    IF lines = << >> THEN << >>
    ELSE IF Len(lines) = 1 THEN lines[1]
    ELSE lines[1] \o <<NL>> \o Join(Tail(lines))

-----------------------------------------------------------------------------
(* Game::extract_moves_from_game                                           *)

\* text[i..] starts with lit
StartsWithAt(text, i, lit) ==
    /\ i + Len(lit) - 1 <= Len(text)
    /\ SubSeq(text, i, i + Len(lit) - 1) = lit

\* a variant of DigitRunEnd: (\d) in place of (\d+), one digit only
OneDigitEnd(text, i) ==
    IF i <= Len(text) /\ IsDigit(text[i]) THEN i + 1 ELSE i

\* (\d+) at index i: the index after the longest run of digits from i on
\* (i itself when there is no digit at i).  Each (\d+) of the pattern is
\* followed by a space or by the end of the pattern, so the only run that
\* can match is the longest one.
RECURSIVE DigitRunEnd(_, _)
DigitRunEnd(text, i) ==
    IF i <= Len(text) /\ IsDigit(text[i]) THEN DigitRunEnd(text, i + 1) ELSE i

LitMove == <<"m", "o", "v", "e", SP>>

LitFrom == <<SP, "f", "r", "o", "m", SP>>

LitTo == <<SP, "t", "o", SP>>

\* the pattern r"move (\d+) from (\d+) to (\d+)" matched at index i: the
\* three captures, << >> if it does not match there
MatchAt(text, i) ==
    LET a1 == i + Len(LitMove)
        e1 == DigitRunEnd(text, a1)
        a2 == e1 + Len(LitFrom)
        e2 == DigitRunEnd(text, a2)
        a3 == e2 + Len(LitTo)
        e3 == DigitRunEnd(text, a3)
    IN  IF /\ StartsWithAt(text, i, LitMove)
           /\ e1 > a1
           /\ StartsWithAt(text, e1, LitFrom)
           /\ e2 > a2
           /\ StartsWithAt(text, e2, LitTo)
           /\ e3 > a3
        THEN << SubSeq(text, a1, e1 - 1), SubSeq(text, a2, e2 - 1),
                SubSeq(text, a3, e3 - 1) >>
        ELSE << >>

\* Regex::captures: the leftmost match anywhere in the line (the pattern is
\* not anchored), << >> for None
RECURSIVE CapturesFrom(_, _)
CapturesFrom(text, i) ==
    IF i > Len(text) THEN << >>
    ELSE IF MatchAt(text, i) # << >> THEN MatchAt(text, i)
    ELSE CapturesFrom(text, i + 1)

Captures(text) == CapturesFrom(text, 1)

\* the value of an ASCII digit
DigitValue(c) ==
    CASE c = "0" -> 0 [] c = "1" -> 1 [] c = "2" -> 2 [] c = "3" -> 3
      [] c = "4" -> 4 [] c = "5" -> 5 [] c = "6" -> 6 [] c = "7" -> 7
      [] c = "8" -> 8 [] c = "9" -> 9

\* the value of a run of ASCII digits, most significant first
RECURSIVE DecimalValue(_)
DecimalValue(digits) ==
    IF digits = << >> THEN 0
    ELSE 10 * DecimalValue(SubSeq(digits, 1, Len(digits) - 1))
            + DigitValue(digits[Len(digits)])

\* str::parse::<usize>() of a capture: <<value>> for Ok(value), << >> for
\* Err (a char that is not an ASCII digit)
ParseUsize(digits) ==
    IF \A i \in 1..Len(digits) : digits[i] \in AsciiDigits
    THEN <<DecimalValue(digits)>>
    ELSE << >>

-----------------------------------------------------------------------------
(* The inputs of the operation parser: the text is written from a list of  *)
(* lines, each either an instruction in the format of section 6 of the     *)
(* spec or some other line.                                                *)

MaxLines == 3       \* longest operations text, in lines

\* the decimal digits of n, most significant first
RECURSIVE Decimal(_)
Decimal(n) ==
    LET d == <<"0", "1", "2", "3", "4", "5", "6", "7", "8", "9">>[(n % 10) + 1]
    IN  IF n < 10 THEN <<d>> ELSE Decimal(n \div 10) \o <<d>>

\* "<prefix>move <q> from <s> to <d><suffix>", and the instruction it states
MoveLine(prefix, q, s, d, suffix) ==
    [ text  |-> prefix \o LitMove \o Decimal(q) \o LitFrom \o Decimal(s)
                   \o LitTo \o Decimal(d) \o suffix,
      instr |-> <<Move(q, s, d)>> ]

\* a line that states no instruction
OtherLine(text) == [text |-> text, instr |-> << >>]

\* "move X from 2 to 1"
LineX == LitMove \o <<"X">> \o LitFrom \o <<"2">> \o LitTo \o <<"1">>

\* "move <U+0663> from 2 to 1"
LineArabic == LitMove \o <<ArabicThree>> \o LitFrom \o <<"2">> \o LitTo \o <<"1">>

Indent == <<SP, SP, SP, SP>>

OpLines ==
    { MoveLine(<< >>, 1, 2, 1, << >>),
      MoveLine(<< >>, 3, 1, 3, << >>),
      MoveLine(Indent, 10, 2, 12, << >>),
      MoveLine(<< >>, 0, 7, 105, <<SP>>),
      OtherLine(LineX),
      OtherLine(LineArabic),
      OtherLine(<< >>),
      OtherLine(Indent),
      OtherLine(<<"m", "o", "v", "e", SP, "1", SP, "t", "o", SP, "2">>) }

\* the lists of at most n lines
RECURSIVE LineLists(_)
LineLists(n) ==
    IF n = 0 THEN { << >> }
    ELSE LET shorter == LineLists(n - 1)
         IN  shorter \cup { Append(l, x) : l \in shorter, x \in OpLines }

\* the texts of a list of lines
TextsOf(lines) == [i \in 1..Len(lines) |-> lines[i].text]

InitEm ==
    /\ OnlyEm
    /\ op_lines \in LineLists(MaxLines)
    /\ moves_map = Join(TextsOf(op_lines))
    /\ lines_left = Lines(moves_map)
    /\ move_raw = << >>
    /\ moves_before = << >>
    /\ moves_out = << >>                  \* let mut moves = Vec::new()
    /\ em_status = "running"

(* Game::extract_moves_from_game: one iteration of                         *)
(* `for move_raw in moves_map.lines()`.                                    *)
ExtractMove ==
    /\ em_status = "running"
    /\ lines_left # << >>
    /\ LET line == Head(lines_left)
           captures == Captures(line)
       IN  /\ move_raw' = line
           /\ moves_before' = moves_out
           /\ IF captures = << >>
              THEN /\ moves_out' = moves_out            \* None => {}
                   /\ em_status' = "running"
              ELSE LET amount == ParseUsize(captures[1])
                       from == ParseUsize(captures[2])
                       to == ParseUsize(captures[3])
                   IN  IF amount = << >> \/ from = << >> \/ to = << >>
                       THEN /\ moves_out' = moves_out   \* unwrap() of an Err
                            /\ em_status' = "panic_extract_moves"
                       ELSE /\ moves_out' =
                                 Append(moves_out, Move(amount[1], from[1], to[1]))
                            /\ em_status' = "running"
    /\ lines_left' = Tail(lines_left)
    /\ UNCHANGED <<op_lines, moves_map, notEm>>

(* Game::extract_moves_from_game returns moves when the lines are          *)
(* exhausted.                                                              *)
ReturnMoves ==
    /\ em_status = "running"
    /\ lines_left = << >>
    /\ em_status' = "returned"
    /\ UNCHANGED <<op_lines, moves_map, lines_left, move_raw, moves_before,
                   moves_out, notEm>>

NextEm == ExtractMove \/ ReturnMoves

SpecEm == InitEm /\ [][NextEm]_vars

-----------------------------------------------------------------------------
(* Properties of the operation parser.                                     *)

\* the instructions the lines state, in line order
RECURSIVE Stated(_)
Stated(lines) ==
    IF lines = << >> THEN << >> ELSE lines[1].instr \o Stated(Tail(lines))

\* some line of the operations text is "move X from 2 to 1"
HasLineX == \E i \in 1..Len(op_lines) : op_lines[i].text = LineX

\* C8 (as claimed): an operations text that contains the line
\* "move X from 2 to 1" makes the run abort; no instruction list is produced.
C8_LineXAborts == HasLineX => em_status # "returned"

\* C8 (amended): the line "move X from 2 to 1" does not match the move
\* pattern and is skipped: the loop iteration that handles it raises no
\* error and adds no instruction, and a text whose other lines parse returns
\* the instructions of those other lines.
C8_LineXSkipped ==
    /\ move_raw = LineX =>
          (em_status # "panic_extract_moves" /\ moves_out = moves_before)
    /\ (HasLineX /\ em_status = "returned") => moves_out = Stated(op_lines)

C8_Witness ==
    /\ HasLineX
    /\ em_status = "returned"
    /\ move_raw = LineX
    /\ moves_out # << >>

\* C9: the result holds one Move per line that matches "move <quantity> from
\* <source> to <destination>", carrying those three integers (source and
\* destination as written, 1-indexed), in line order; blank and non-matching
\* lines add nothing and raise no error.  (A line whose numbers are digits
\* of another script matches the code's \d+ and is not such a line.)
C9_OneMovePerMatchingLine ==
    /\ em_status = "returned" => moves_out = Stated(op_lines)
    /\ (\E l \in OpLines :
          l.text = move_raw /\ l.instr = << >> /\ l.text # LineArabic) =>
          (em_status # "panic_extract_moves" /\ moves_out = moves_before)

C9_Witness ==
    /\ em_status = "returned"
    /\ Len(op_lines) = 3
    /\ Len(moves_out) = 2
    /\ moves_out[1].to = 12
    /\ moves_out[2].amount = 0
    /\ op_lines[2].text = << >>

-----------------------------------------------------------------------------
(* Game::parse_game_input                                                  *)

MaxInputLen == 7    \* longest input text, in chars

InputChars == {"a", "b", SP, NL}

\* the texts of at most n chars
RECURSIVE Texts(_)
Texts(n) ==
    IF n = 0 THEN { << >> }
    ELSE LET shorter == Texts(n - 1)
         IN  shorter \cup { Append(t, c) : t \in shorter, c \in InputChars }

\* Iterator::skip_while(|line| line.trim().is_empty())
RECURSIVE SkipWhileBlank(_)
SkipWhileBlank(lines) ==
    IF lines # << >> /\ TrimIsEmpty(Head(lines))
    THEN SkipWhileBlank(Tail(lines))
    ELSE lines

\* cleaned_input: the lines from the first non-blank one on, joined by "\n"
CleanedInput(text) == Join(SkipWhileBlank(Lines(text)))

\* the index after the run of newlines that starts at index i
RECURSIVE NewlineRunEnd(_, _)
NewlineRunEnd(text, i) ==
    IF i <= Len(text) /\ text[i] = NL THEN NewlineRunEnd(text, i + 1) ELSE i

\* the index of the first run of two or more newlines from index i on,
\* Len(text) + 1 if there is none
RECURSIVE FindRun(_, _)
FindRun(text, i) ==
    IF i > Len(text) THEN Len(text) + 1
    ELSE IF NewlineRunEnd(text, i) >= i + 2 THEN i
    ELSE FindRun(text, i + 1)

\* Regex::new(r"\n{2,}").split(text): the pieces between the runs of two or
\* more newlines, every run taken whole (the repetition is greedy)
RECURSIVE RegexSplit(_)
RegexSplit(text) ==
    LET i == FindRun(text, 1)
    IN  IF i > Len(text) THEN <<text>>
        ELSE <<SubSeq(text, 1, i - 1)>>
                \o RegexSplit(SubSeq(text, NewlineRunEnd(text, i), Len(text)))

InitPg ==
    /\ OnlyPg
    /\ input \in Texts(MaxInputLen)
    /\ stacks_raw = << >>
    /\ moves_raw = << >>
    /\ pg_status = "called"

(* Game::parse_game_input: game[1] panics when the split gives one piece.  *)
ParseGameInput ==
    /\ pg_status = "called"
    /\ LET game == RegexSplit(CleanedInput(input))
       IN  IF Len(game) >= 2
           THEN /\ stacks_raw' = game[1]
                /\ moves_raw' = game[2]
                /\ pg_status' = "returned"
           ELSE /\ UNCHANGED <<stacks_raw, moves_raw>>
                /\ pg_status' = "panic_parse_game_input"
    /\ UNCHANGED <<input, notPg>>

NextPg == ParseGameInput

SpecPg == InitPg /\ [][NextPg]_vars

-----------------------------------------------------------------------------
(* Properties of the input splitter.                                       *)

\* the input with its leading blank lines dropped
WithoutLeadingBlankLines == Join(SkipWhileBlank(Lines(input)))

\* C10 (as claimed): for an input with at least two blocks, the text without
\* its leading blank lines is split at the first run of two or more newlines
\* into two substrings: layout_text is everything before that run and
\* operations_text is everything after it, a later blank-line run and the
\* lines that follow it included.
C10_SplitAtFirstRunOnly ==
    LET text == WithoutLeadingBlankLines
        first == FindRun(text, 1)
    IN  first <= Len(text) =>
           /\ pg_status # "panic_parse_game_input"
           /\ pg_status = "returned" =>
                 /\ stacks_raw = SubSeq(text, 1, first - 1)
                 /\ moves_raw = SubSeq(text, NewlineRunEnd(text, first), Len(text))

-----------------------------------------------------------------------------
(* Game::extract_stack_contents                                            *)

\* char::is_numeric for the chars of the model
IsNumeric(c) == c \in AsciiDigits \cup {ArabicThree}

\* line.matches(char::is_numeric).collect()
Matches(line) == SelectSeq(line, IsNumeric)

\* None of extract_stack_indicies
NoIndicies == [found |-> FALSE, stack_indices |-> << >>, stack_ids_row |-> 0]

\* the loop of extract_stack_indicies from the line of index i (from 0) on
RECURSIVE ScanIndicies(_, _)
ScanIndicies(lines, i) ==
    IF i >= Len(lines) THEN NoIndicies
    ELSE LET line == lines[i + 1]
             found == Matches(line)
         IN  IF Len(found) > 0
             THEN [found |-> TRUE, stack_indices |-> found, stack_ids_row |-> i]
             ELSE IF line = << >> /\ i > 0 THEN NoIndicies
             ELSE ScanIndicies(lines, i + 1)

ExtractStackIndicies(text) == ScanIndicies(Lines(text), 0)

\* a variant of NewStacks: one stack too many
\* (`stacks.resize(stack_amount + 1, Vec::new())`)
NewStacksOneMore(stack_amount) == [i \in 1..(stack_amount + 1) |-> << >>]

\* `stacks.resize(stack_amount, Vec::new())` on the new Vec
NewStacks(stack_amount) == [i \in 1..stack_amount |-> << >>]

\* line.chars().skip(j).take(4): what the line has of its chars j .. j + 3
\* (from 0)
Field(line, j) ==
    SubSeq(line, j + 1, IF j + 4 <= Len(line) THEN j + 4 ELSE Len(line))

\* a variant of ExtractStackItem: nth(0), the opening bracket
ExtractFirstChar(stack_item_raw) == stack_item_raw[1]

\* extract_stack_item: nth(1) of a field of two chars or more
ExtractStackItem(stack_item_raw) == stack_item_raw[2]

\* extract_stack_item panics on some field of the line: nth(1) is None
RowPanics(line, stack_amount) ==
    \E c \in 1..stack_amount :
        LET stack_item_raw == Field(line, 4 * (c - 1))
        IN  ~ TrimIsEmpty(stack_item_raw) /\ Len(stack_item_raw) < 2

\* the loop `for stack_index in 0..stack_amount` on one line
PushRow(columns, line) ==
    [c \in 1..Len(columns) |->
        LET stack_item_raw == Field(line, 4 * (c - 1))
        IN  IF ~ TrimIsEmpty(stack_item_raw)
            THEN Append(columns[c], ExtractStackItem(stack_item_raw))
            ELSE columns[c]]

\* the loop `for (row, line)` until row = n: the lines 1 .. n, in order
RECURSIVE PushRows(_, _, _)
PushRows(columns, lines, n) ==
    IF n = 0 THEN columns
    ELSE PushRow(PushRows(columns, lines, n - 1), lines[n])

(* The layouts of the model are drawn as the puzzle draws them: rows of    *)
(* cells "[X]" or "   " joined by one space, above a row of labels.        *)

MaxLayoutColumns == 3   \* most columns drawn

MaxLayoutRows == 2      \* most rows of units drawn

MaxUnits == 3           \* most units drawn

UnitLetters == <<"A", "B", "C", "D", "E", "F", "G",
                 "H", "J", "K", "L", "M", "N", "P">>

\* the unit drawn in row r of column c
UnitAt(r, c) ==
    UnitLetters[(((r - 1) * (MaxLayoutColumns + 1) + c) % Len(UnitLetters)) + 1]

Cell(filled, r, c) ==
    IF <<r, c>> \in filled THEN <<"[", UnitAt(r, c), "]">> ELSE <<SP, SP, SP>>

\* the cells 1 .. cols of row r
RECURSIVE RowOfCells(_, _, _)
RowOfCells(filled, r, cols) ==
    IF cols = 0 THEN << >>
    ELSE IF cols = 1 THEN Cell(filled, r, 1)
    ELSE RowOfCells(filled, r, cols - 1) \o <<SP>> \o Cell(filled, r, cols)

\* " 1   2   3 "
RECURSIVE RowOfLabels(_)
RowOfLabels(cols) ==
    IF cols = 0 THEN << >>
    ELSE IF cols = 1 THEN <<SP>> \o Decimal(1) \o <<SP>>
    ELSE RowOfLabels(cols - 1) \o <<SP, SP>> \o Decimal(cols) \o <<SP>>

\* the line without its trailing spaces
RECURSIVE TrimEnd(_)
TrimEnd(line) ==
    IF line # << >> /\ line[Len(line)] = SP
    THEN TrimEnd(SubSeq(line, 1, Len(line) - 1))
    ELSE line

\* the line as the file has it: as drawn, without its trailing spaces,
\* without its trailing spaces and its last two chars, or behind four spaces
\* (the string literals of the tests are indented with the code)
Styles == {"drawn", "trimmed", "cut", "indented"}

Styled(line, style) ==
    CASE style = "drawn" -> line
      [] style = "trimmed" -> TrimEnd(line)
      [] style = "cut" ->
            LET t == TrimEnd(line)
            IN  IF Len(t) >= 2 THEN SubSeq(t, 1, Len(t) - 2) ELSE t
      [] style = "indented" -> Indent \o line

\* a line below the row of labels
LineBelow == <<"[", "Z", "]">>

\* with or without an empty first line, in every style; with a line below
\* the labels in the style "drawn"
Variants ==
    { v \in [lead : BOOLEAN, style : Styles, below : BOOLEAN] :
        v.below => v.style = "drawn" }

Layouts ==
    UNION { UNION { { [cols |-> cols, rows |-> rows, filled |-> filled,
                       lead |-> v.lead, style |-> v.style, below |-> v.below] :
                      filled \in { f \in SUBSET ((1..rows) \X (1..cols)) :
                                     Cardinality(f) <= MaxUnits },
                      v \in Variants } :
                    rows \in 0..MaxLayoutRows } :
            cols \in 0..MaxLayoutColumns }

\* the lines of the layout l
LayoutLines(l) ==
    (IF l.lead THEN << << >> >> ELSE << >>)
    \o [r \in 1..l.rows |-> Styled(RowOfCells(l.filled, r, l.cols), l.style)]
    \o << Styled(RowOfLabels(l.cols), l.style) >>
    \o (IF l.below THEN << LineBelow >> ELSE << >>)

LayoutTexts == { Join(LayoutLines(l)) : l \in Layouts }

InitEs ==
    /\ OnlyEs
    /\ stack_raw \in LayoutTexts
    /\ es_stacks = << >>
    /\ es_status = "called"

\* extract_stack_contents(stack_raw), from the call to the return or the
\* panic: the unwrap of None, or the expect in extract_stack_item
ExtractStackContents ==
    /\ es_status = "called"
    /\ LET indicies == ExtractStackIndicies(stack_raw)
           stack_amount == Len(indicies.stack_indices)
           stack_ids_row == indicies.stack_ids_row
           lines == Lines(stack_raw)
       IN  IF ~ indicies.found
           THEN /\ es_status' = "panic_extract_stack_contents"
                /\ es_stacks' = << >>
           ELSE IF \E r \in 1..stack_ids_row : RowPanics(lines[r], stack_amount)
           THEN /\ es_status' = "panic_extract_stack_contents"
                /\ es_stacks' = << >>
           ELSE /\ es_status' = "returned"
                /\ es_stacks' = PushRows(NewStacks(stack_amount), lines,
                                         stack_ids_row)
    /\ UNCHANGED <<stack_raw, notEs>>

NextEs == ExtractStackContents

SpecEs == InitEs /\ [][NextEs]_vars

-----------------------------------------------------------------------------
(* Properties of the layout parser.                                        *)

HasNumeric(line) == \E p \in 1..Len(line) : IsNumeric(line[p])

\* the label row of the lines: the first line that contains a numeric
\* character (from 1; 0 when no line does)
LabelRow(lines) ==
    IF \E i \in 1..Len(lines) : HasNumeric(lines[i])
    THEN CHOOSE i \in 1..Len(lines) :
            /\ HasNumeric(lines[i])
            /\ \A j \in 1..(i - 1) : ~ HasNumeric(lines[j])
    ELSE 0

\* the c-th field of four chars of the line is not all whitespace
FieldHasUnit(line, c) ==
    \E p \in (4 * (c - 1) + 1)..(4 * c) :
        p <= Len(line) /\ ~ IsWhitespace(line[p])

\* the content rows (the lines above the label row) that hold a unit of
\* column c
RowsWithUnit(lines, label, c) ==
    { r \in 1..(label - 1) : FieldHasUnit(lines[r], c) }

-----------------------------------------------------------------------------
(* Day 4 (src/day4/src/main.rs): AssignmentPair::either_overlaps.  An      *)
(* Assignment (i32, i32) is <<a.0, a.1>>; the sections of the model are far *)
(* below i32::MAX.                                                         *)

MaxSection == 4     \* largest section id

\* the assignments of the model, those with a.0 > a.1 included
Assignment == (0..MaxSection) \X (0..MaxSection)

\* a variant of Overlap: every comparison strict
OverlapStrict(a, b) ==
    \/ a[1] < b[1] /\ a[2] > b[1]
    \/ a[1] > b[1] /\ a[2] < b[2]
    \/ a[1] < b[2] /\ a[2] > b[2]

\* AssignmentPair::overlap
Overlap(a, b) ==
    \/ a[1] <= b[1] /\ a[2] >= b[1]     \* case-1
    \/ a[1] >= b[1] /\ a[2] <= b[2]     \* case-2
    \/ a[1] <= b[2] /\ a[2] >= b[2]     \* case-3

\* AssignmentPair::either_overlaps of the pair p
EitherOverlapsOf(p) == Overlap(p[1], p[2]) \/ Overlap(p[2], p[1])

InitD4 ==
    /\ OnlyD4
    /\ pair \in Assignment \X Assignment    \* AssignmentPair::new(a, b)
    /\ overlaps = FALSE
    /\ d4_status = "called"

\* pair.either_overlaps()
EitherOverlaps ==
    /\ d4_status = "called"
    /\ overlaps' = EitherOverlapsOf(pair)
    /\ d4_status' = "returned"
    /\ UNCHANGED <<pair, notD4>>

NextD4 == EitherOverlaps

SpecD4 == InitD4 /\ [][NextD4]_vars

\* a range (lo, hi) with 0 <= lo <= hi
IsRange(a) == 0 <= a[1] /\ a[1] <= a[2]

\* the sections of the range a
Sections(a) == { n \in 0..MaxSection : a[1] <= n /\ n <= a[2] }

\* C15: for every pair of ranges (lo, hi) with 0 <= lo <= hi, either_overlaps
\* is true exactly when the ranges share a section, that is when
\* a.lo <= b.hi and b.lo <= a.hi, and it is the same for the pair in the
\* other order.
C15_OverlapsIffShared ==
    (d4_status = "returned" /\ IsRange(pair[1]) /\ IsRange(pair[2])) =>
        LET a == pair[1]
            b == pair[2]
        IN  /\ overlaps <=> (a[1] <= b[2] /\ b[1] <= a[2])
            /\ overlaps <=> (Sections(a) \cap Sections(b) # {})
            /\ overlaps <=> EitherOverlapsOf(<<b, a>>)

\* the ranges touch in one section, the second starts where the first ends
C15_Witness ==
    /\ d4_status = "returned"
    /\ IsRange(pair[1])
    /\ IsRange(pair[2])
    /\ pair[1][1] < pair[1][2]
    /\ pair[1][2] = pair[2][1]
    /\ pair[2][1] < pair[2][2]
    /\ overlaps

-----------------------------------------------------------------------------
(* Day 2 (src/day2/src/main.rs): RockPaperScissors::run, which plays the   *)
(* rounds in order (RoundSetup::play) and adds up the scores.  The sums of *)
(* the model are far below i32::MAX.                                       *)

MaxRounds == 2      \* longest game, in rounds

Hand == {"Rock", "Paper", "Scissors"}

\* `self.opponent as i32`: the discriminants of enum Hand
HandAsI32(hand) ==
    CASE hand = "Rock" -> 1 [] hand = "Paper" -> 2 [] hand = "Scissors" -> 3

RoundSetup == [opponent : Hand, myself : Hand]

\* a variant of PartialCmp: Greater and Less the other way round
PartialCmpReversed(self, other) ==
    IF self = other THEN "Equal"
    ELSE IF <<self, other>> \in { <<"Rock", "Scissors">>,
                                  <<"Scissors", "Paper">>,
                                  <<"Paper", "Rock">> }
    THEN "Less"
    ELSE "Greater"

\* impl PartialOrd for Hand: partial_cmp, never None
PartialCmp(self, other) ==
    CASE <<self, other>> = <<"Rock", "Rock">> -> "Equal"
      [] <<self, other>> = <<"Scissors", "Scissors">> -> "Equal"
      [] <<self, other>> = <<"Paper", "Paper">> -> "Equal"
      [] <<self, other>> = <<"Rock", "Scissors">> -> "Greater"
      [] <<self, other>> = <<"Scissors", "Paper">> -> "Greater"
      [] <<self, other>> = <<"Paper", "Rock">> -> "Greater"
      [] <<self, other>> = <<"Rock", "Paper">> -> "Less"
      [] <<self, other>> = <<"Scissors", "Rock">> -> "Less"
      [] <<self, other>> = <<"Paper", "Scissors">> -> "Less"

\* RoundSetup::play
Play(setup) ==
    LET ordering == PartialCmp(setup.opponent, setup.myself)
        winner == CASE ordering = "Equal" -> "Draw"
                    [] ordering = "Greater" -> "OpponentWins"
                    [] ordering = "Less" -> "MyselfWins"
        score_opponent ==
            CASE winner = "OpponentWins" -> HandAsI32(setup.opponent) + 6
              [] winner = "Draw" -> HandAsI32(setup.opponent) + 3
              [] winner = "MyselfWins" -> HandAsI32(setup.opponent)
        score_myself ==
            CASE winner = "MyselfWins" -> HandAsI32(setup.myself) + 6
              [] winner = "Draw" -> HandAsI32(setup.myself) + 3
              [] winner = "OpponentWins" -> HandAsI32(setup.myself)
    IN  [winner |-> winner, score_opponent |-> score_opponent,
         score_myself |-> score_myself]

\* the games of n rounds
RECURSIVE Games(_)
Games(n) ==
    IF n = 0 THEN { << >> }
    ELSE { <<setup>> \o g : setup \in RoundSetup, g \in Games(n - 1) }

InitD2 ==
    /\ OnlyD2
    /\ rounds_setup \in UNION { Games(n) : n \in 0..MaxRounds }
    /\ round = << >>
    /\ round_outcome = << >>
    /\ game_outcome = [winner |-> "Draw", score_opponent |-> 0,
                       score_myself |-> 0]
    /\ d2_status = "running"

\* one iteration of `for round in &self.rounds_setup`
PlayRound ==
    /\ d2_status = "running"
    /\ rounds_setup # << >>
    /\ round' = Head(rounds_setup)
    /\ round_outcome' = Play(Head(rounds_setup))
    /\ game_outcome' =
          [game_outcome EXCEPT
              !.score_opponent = @ + Play(Head(rounds_setup)).score_opponent,
              !.score_myself = @ + Play(Head(rounds_setup)).score_myself]
    /\ rounds_setup' = Tail(rounds_setup)
    /\ UNCHANGED <<d2_status, notD2>>

\* the end of the loop: the winner of the game, and the return
ReturnOutcome ==
    /\ d2_status = "running"
    /\ rounds_setup = << >>
    /\ game_outcome' =
          [game_outcome EXCEPT
              !.winner =
                 IF game_outcome.score_myself = game_outcome.score_opponent
                 THEN "Draw"
                 ELSE IF game_outcome.score_myself > game_outcome.score_opponent
                 THEN "MyselfWins"
                 ELSE "OpponentWins"]
    /\ d2_status' = "returned"
    /\ UNCHANGED <<rounds_setup, round, round_outcome, notD2>>

NextD2 == PlayRound \/ ReturnOutcome

SpecD2 == InitD2 /\ [][NextD2]_vars

\* Rock beats Scissors, Scissors beats Paper, Paper beats Rock
Beats(winning, losing) ==
    \/ winning = "Rock" /\ losing = "Scissors"
    \/ winning = "Scissors" /\ losing = "Paper"
    \/ winning = "Paper" /\ losing = "Rock"

\* Rock 1, Paper 2, Scissors 3
ValueOfHand == [h \in Hand |-> IF h = "Rock" THEN 1 ELSE IF h = "Paper" THEN 2 ELSE 3]

\* 6 for a win, 3 for a draw, 0 for a loss
Bonus(won, drawn) == IF won THEN 6 ELSE IF drawn THEN 3 ELSE 0

\* C16: for each of the 9 combinations of opponent hand and own hand, play
\* returns Draw on equal hands and otherwise the holder of the beating hand,
\* and each side's score is its hand value plus 6 for a win, 3 for a draw,
\* 0 for a loss.
C16_PlayByTheRules ==
    round # << >> =>
        LET drawn == round.opponent = round.myself
            opponent_won == Beats(round.opponent, round.myself)
            myself_won == Beats(round.myself, round.opponent)
        IN  /\ round_outcome.winner =
                  (IF drawn THEN "Draw"
                   ELSE IF opponent_won THEN "OpponentWins"
                   ELSE "MyselfWins")
            /\ ~ drawn => (opponent_won \/ myself_won)
            /\ round_outcome.score_opponent =
                  ValueOfHand[round.opponent] + Bonus(opponent_won, drawn)
            /\ round_outcome.score_myself =
                  ValueOfHand[round.myself] + Bonus(myself_won, drawn)

\* Scissors against my Rock: I win 7 to 3
C16_Witness ==
    /\ round = [opponent |-> "Scissors", myself |-> "Rock"]
    /\ round_outcome = [winner |-> "MyselfWins", score_opponent |-> 3,
                        score_myself |-> 7]

-----------------------------------------------------------------------------
(* Day 1 (src/day1/src/main.rs): extract_calories_per_elf.  The numbers    *)
(* and the sums of the model are far below i32::MAX.                       *)

MaxNotes == 3       \* longest notes, in lines

\* str::trim() of a line
RECURSIVE Trim(_)
Trim(line) ==
    IF line = << >> THEN line
    ELSE IF IsWhitespace(line[1]) THEN Trim(Tail(line))
    ELSE IF IsWhitespace(line[Len(line)])
    THEN Trim(SubSeq(line, 1, Len(line) - 1))
    ELSE line

\* str::parse::<i32>(): <<value>> for Ok(value), << >> for Err; an optional
\* sign and then ASCII digits, at least one
ParseI32(text) ==
    LET signed == text # << >> /\ text[1] \in {"+", "-"}
        digits == IF signed THEN Tail(text) ELSE text
    IN  IF digits = << >> \/ \E i \in 1..Len(digits) : digits[i] \notin AsciiDigits
        THEN << >>
        ELSE IF text[1] = "-" THEN << 0 - DecimalValue(digits) >>
        ELSE << DecimalValue(digits) >>

\* the loop `for line in calories_notes.lines()` on the lines that are left;
\* panicked when the expect on parse fails
RECURSIVE CaloriesLoop(_, _, _)
CaloriesLoop(lines, calories, elf_calorie) ==
    IF lines = << >>
    THEN [panicked |-> FALSE, elf_calories |-> calories,
          elf_calorie |-> elf_calorie]
    ELSE LET sanitized_line == Trim(Head(lines))
         IN  IF sanitized_line = << >>
             THEN CaloriesLoop(Tail(lines), Append(calories, elf_calorie), 0)
             ELSE IF ParseI32(sanitized_line) = << >>
             THEN [panicked |-> TRUE, elf_calories |-> calories,
                   elf_calorie |-> elf_calorie]
             ELSE CaloriesLoop(Tail(lines), calories,
                               elf_calorie + ParseI32(sanitized_line)[1])

\* `if elf_calorie > 0 { elf_calories.push(elf_calorie); }`
PushLast(calories, elf_calorie) ==
    IF elf_calorie > 0 THEN Append(calories, elf_calorie) ELSE calories

\* extract_calories_per_elf(text)
ExtractCaloriesOf(text) ==
    LET after == CaloriesLoop(Lines(text), << >>, 0)
    IN  IF after.panicked
        THEN [panicked |-> TRUE, elf_calories |-> << >>]
        ELSE [panicked |-> FALSE,
              elf_calories |-> PushLast(after.elf_calories, after.elf_calorie)]

\* the lines of the notes of the model
NoteLines ==
    { <<"0">>, <<"7">>, <<SP, "1", "2", SP>>, <<"-", "2">>, <<"x">>,
      << >>, <<SP, SP>> }

RECURSIVE Notes(_)
Notes(n) ==
    IF n = 0 THEN { << >> }
    ELSE { <<line>> \o rest : line \in NoteLines, rest \in Notes(n - 1) }

\* the notes, with and without a newline after the last line
NotesTexts ==
    UNION { { Join(lines), Join(lines) \o <<NL>> } :
            lines \in UNION { Notes(n) : n \in 0..MaxNotes } }

InitD1 ==
    /\ OnlyD1
    /\ calories_notes \in NotesTexts
    /\ elf_calories = << >>
    /\ d1_status = "called"

\* extract_calories_per_elf(calories_notes), from the call to the return or
\* the panic
ExtractCaloriesPerElf ==
    /\ d1_status = "called"
    /\ LET result == ExtractCaloriesOf(calories_notes)
       IN  /\ elf_calories' = result.elf_calories
           /\ d1_status' = IF result.panicked THEN "panic_extract_calories"
                           ELSE "returned"
    /\ UNCHANGED <<calories_notes, notD1>>

NextD1 == ExtractCaloriesPerElf

SpecD1 == InitD1 /\ [][NextD1]_vars

\* the line is blank
IsBlankLine(line) == \A i \in 1..Len(line) : line[i] = SP

\* the line is a non-negative integer, spaces around it or not
IsNumberLine(line) ==
    /\ ~ IsBlankLine(line)
    /\ \A i \in 1..Len(line) : line[i] \in AsciiDigits \cup {SP}
    /\ \A i, j \in 1..Len(line) :
          (i < j /\ line[i] # SP /\ line[j] # SP) =>
              \A k \in i..j : line[k] # SP

\* the number on a number line
NumberOn(line) ==
    DecimalValue(SelectSeq(line, LAMBDA c : c # SP))

\* groups of number lines, one blank line between two groups, and after the
\* last group a blank line or none
GroupedNotes(lines) ==
    /\ lines # << >>
    /\ \A i \in 1..Len(lines) : IsNumberLine(lines[i]) \/ IsBlankLine(lines[i])
    /\ IsNumberLine(lines[1])
    /\ \A i \in 1..(Len(lines) - 1) :
          ~ (IsBlankLine(lines[i]) /\ IsBlankLine(lines[i + 1]))

\* the totals of the groups; open is the total of the group that the last
\* number line belongs to, << >> after a blank line
RECURSIVE GroupTotals(_, _, _)
GroupTotals(lines, totals, open) ==
    IF lines = << >> THEN totals \o open
    ELSE IF IsBlankLine(Head(lines))
    THEN GroupTotals(Tail(lines), totals \o open, << >>)
    ELSE GroupTotals(Tail(lines), totals,
                     << (IF open = << >> THEN 0 ELSE open[1])
                        + NumberOn(Head(lines)) >>)

\* C17 (as claimed): for notes whose lines are non-negative integers or
\* blank, in groups separated by one blank line, the result lists one total
\* per group, in order, each the sum of its group, and it is the result for
\* the same notes with, or without, a blank line after the last group.
C17_OneTotalPerGroup ==
    LET lines == Lines(calories_notes)
        last == lines[Len(lines)]
        other == IF IsBlankLine(last)
                 THEN Join(SubSeq(lines, 1, Len(lines) - 1))
                 ELSE Join(lines) \o <<NL, NL>>
    IN  (d1_status # "called" /\ GroupedNotes(lines)) =>
            /\ d1_status = "returned"
            /\ elf_calories = GroupTotals(lines, << >>, << >>)
            /\ elf_calories = ExtractCaloriesOf(other).elf_calories

-----------------------------------------------------------------------------
(* main: game.find_message(mover_model) for each model of                  *)
(* crate_mover_models, on the one Game `game`.  Every call parses the      *)
(* texts of the Game again (Game::execute_moves), builds a CrateMover and  *)
(* runs it; a panic ends the process.                                      *)

MaxGameMoves == 2       \* longest list of instructions of a Game

MaxGameAmount == 2      \* largest quantity of such an instruction

GameStacks ==
    { << <<"A", "B">>, <<"C">> >>,
      << <<>>, <<"A", "B">> >> }

\* the instructions between the columns of the stacks
GameMoves(stacks) ==
    { Move(a, f, t) : a \in 0..MaxGameAmount,
                      f \in 1..Len(stacks), t \in 1..Len(stacks) }

\* the lists of n instructions of the set
RECURSIVE MoveLists(_, _)
MoveLists(set, n) ==
    IF n = 0 THEN { << >> }
    ELSE { <<m>> \o rest : m \in set, rest \in MoveLists(set, n - 1) }

\* Game::find_message as a function: <<message>> for what a Game of these
\* stacks and instructions returns for the model, << >> when it panics
FindMessageOf(stacks, list, mover_model) ==
    LET run == ExecuteMovesOf(stacks, list, mover_model, 0)
    IN  IF run.panicked \/ ~ AllNonEmpty(run.stacks) THEN << >>
        ELSE << TopOfEach(run.stacks) >>

InitMn ==
    /\ OnlyMn
    /\ \/ /\ fresh_stacks \in GameStacks
          /\ game_moves \in UNION { MoveLists(GameMoves(fresh_stacks), n) :
                                      n \in 0..MaxGameMoves }
       \/ /\ fresh_stacks = Scenario1Stacks
          /\ game_moves = Scenario1Moves
    /\ game_stacks = fresh_stacks           \* Game::new(&input_contents)
    /\ crate_mover_models \in { <<"Model9000", "Model9001">>,
                                <<"Model9001", "Model9000">> }
    /\ models_left = crate_mover_models
    /\ mn_model = "none"
    /\ mn_moves = << >>
    /\ mn_stacks_new = << >>
    /\ messages = << >>
    /\ mn_status = "main"

\* the loop of main takes the next model and calls find_message, which
\* calls Game::execute_moves: the stacks and the instructions are read from
\* the Game, and CrateMover::execute_moves starts on a clone of the stacks
CallFindMessage ==
    /\ mn_status = "main"
    /\ models_left # << >>
    /\ mn_model' = Head(models_left)
    /\ models_left' = Tail(models_left)
    /\ mn_moves' = game_moves
    /\ mn_stacks_new' = Clone(game_stacks)
    /\ mn_status' = "running"
    /\ UNCHANGED <<fresh_stacks, game_stacks, game_moves, crate_mover_models,
                   messages, notMn>>

(* A variant of MainExecuteMove: the instruction is applied to the stacks  *)
(* of the Game as well (execute_moves on `&mut self.stacks`, no clone).    *)
MainExecuteMoveInPlace ==
    /\ mn_status = "running"
    /\ mn_moves # << >>
    /\ IF MoveSucceeds(mn_stacks_new, Head(mn_moves))
       THEN /\ mn_stacks_new' = AfterMove(mn_stacks_new, Head(mn_moves), mn_model)
            /\ game_stacks' = AfterMove(mn_stacks_new, Head(mn_moves), mn_model)
            /\ mn_status' = "running"
       ELSE /\ mn_stacks_new' = AtPanic(mn_stacks_new, Head(mn_moves))
            /\ game_stacks' = AtPanic(mn_stacks_new, Head(mn_moves))
            /\ mn_status' = "panic"
    /\ mn_moves' = Tail(mn_moves)
    /\ UNCHANGED <<fresh_stacks, game_moves, crate_mover_models, models_left,
                   mn_model, messages, notMn>>

\* one iteration of `for m in moves` of CrateMover::execute_moves
MainExecuteMove ==
    /\ mn_status = "running"
    /\ mn_moves # << >>
    /\ IF MoveSucceeds(mn_stacks_new, Head(mn_moves))
       THEN /\ mn_stacks_new' = AfterMove(mn_stacks_new, Head(mn_moves), mn_model)
            /\ mn_status' = "running"
       ELSE /\ mn_stacks_new' = AtPanic(mn_stacks_new, Head(mn_moves))
            /\ mn_status' = "panic"
    /\ mn_moves' = Tail(mn_moves)
    /\ UNCHANGED <<fresh_stacks, game_stacks, game_moves, crate_mover_models,
                   models_left, mn_model, messages, notMn>>

\* execute_moves returns, find_message reads the tops (or panics on an
\* empty stack) and returns the message to main, which prints it
ReturnMessage ==
    /\ mn_status = "running"
    /\ mn_moves = << >>
    /\ IF AllNonEmpty(mn_stacks_new)
       THEN /\ messages' = Append(messages, TopOfEach(mn_stacks_new))
            /\ mn_status' = "main"
       ELSE /\ messages' = messages
            /\ mn_status' = "panic"
    /\ UNCHANGED <<fresh_stacks, game_stacks, game_moves, crate_mover_models,
                   models_left, mn_model, mn_moves, mn_stacks_new, notMn>>

\* the loop of main ends
ExitMain ==
    /\ mn_status = "main"
    /\ models_left = << >>
    /\ mn_status' = "exit"
    /\ UNCHANGED <<fresh_stacks, game_stacks, game_moves, crate_mover_models,
                   models_left, mn_model, mn_moves, mn_stacks_new, messages,
                   notMn>>

NextMn == CallFindMessage \/ MainExecuteMove \/ ReturnMessage \/ ExitMain

SpecMn == InitMn /\ [][NextMn]_vars

\* C21: a run does not modify the ColumnSet it starts from: the Game holds
\* the stacks of its input all along, and every find_message of main, the
\* second one after the first one in either order of the models, gives what
\* find_message gives alone on a Game just made from the same input (a
\* message, or a panic).
C21_RunsIndependent ==
    /\ mn_status # "idle" => game_stacks = fresh_stacks
    /\ \A i \in 1..Len(messages) :
          << messages[i] >>
             = FindMessageOf(fresh_stacks, game_moves, crate_mover_models[i])
    /\ mn_status = "panic" =>
          FindMessageOf(fresh_stacks, game_moves, mn_model) = << >>

\* both runs done, the first one moved units and the second one returned
\* another message
C21_Witness ==
    /\ mn_status = "exit"
    /\ Len(messages) = 2
    /\ Len(game_moves) = 2
    /\ AllNonEmpty(fresh_stacks)
    /\ messages[1] # TopOfEach(fresh_stacks)
    /\ messages[2] # messages[1]
    /\ mn_stacks_new # game_stacks

-----------------------------------------------------------------------------
(* CrateMover::execute_moves for Model9000 and for Model9001 side by side: *)
(* the two CrateMovers hold the same stacks and are given the same list of *)
(* instructions, and a step is the next loop iteration of each run that    *)
(* has not panicked.                                                       *)

InitBo ==
    /\ OnlyBo
    /\ both_stacks \in InitialStacks \cup RoundTripStacks
    /\ both_left \in 0..MaxMoves
    /\ both_cur = NoMove
    /\ both_new = [mm \in CrateMoverModel |-> Clone(both_stacks)]
    /\ both_status = [mm \in CrateMoverModel |-> "running"]

\* the next instruction of the list, in each run that is still in its loop
BothExecuteMove ==
    /\ both_left > 0
    /\ \E mm \in CrateMoverModel : both_status[mm] = "running"
    /\ \E m \in AllMoves(both_stacks) :
          /\ both_cur' = m
          /\ both_new' =
                [mm \in CrateMoverModel |->
                    IF both_status[mm] # "running" THEN both_new[mm]
                    ELSE IF MoveSucceeds(both_new[mm], m)
                    THEN AfterMove(both_new[mm], m, mm)
                    ELSE AtPanic(both_new[mm], m)]
          /\ both_status' =
                [mm \in CrateMoverModel |->
                    IF both_status[mm] # "running" THEN both_status[mm]
                    ELSE IF MoveSucceeds(both_new[mm], m) THEN "running"
                    ELSE "panic_execute_moves"]
    /\ both_left' = both_left - 1
    /\ UNCHANGED <<both_stacks, notBo>>

\* the list is exhausted: each run still in its loop returns stacks_new
BothReturn ==
    /\ both_left = 0
    /\ \E mm \in CrateMoverModel : both_status[mm] = "running"
    /\ both_status' =
          [mm \in CrateMoverModel |->
              IF both_status[mm] = "running" THEN "returned"
              ELSE both_status[mm]]
    /\ UNCHANGED <<both_stacks, both_left, both_cur, both_new, notBo>>

NextBo == BothExecuteMove \/ BothReturn

SpecBo == InitBo /\ [][NextBo]_vars

\* the lengths of the columns
Lengths(columns) == [i \in 1..Len(columns) |-> Len(columns[i])]

\* C23: for every initial ColumnSet and every list of instructions, after
\* each instruction the columns are as long under Model9000 as under
\* Model9001, and the one run panics exactly when the other does, at the
\* same instruction.
C23_ModesAgreeOnLengths ==
    both_status # << >> =>
        /\ both_status["Model9000"] = both_status["Model9001"]
        /\ Lengths(both_new["Model9000"]) = Lengths(both_new["Model9001"])

\* the two runs panic at the last instruction of the list, after one that
\* moved several units: the columns have the same lengths and not the same
\* contents
C23_Witness ==
    /\ both_status # << >>
    /\ both_status["Model9000"] = "panic_execute_moves"
    /\ both_status["Model9001"] = "panic_execute_moves"
    /\ both_left = 0
    /\ both_cur.from \in 1..Len(both_stacks)
    /\ both_cur.to \in 1..Len(both_stacks)
    /\ both_new["Model9000"] # both_new["Model9001"]
    /\ both_new["Model9000"][both_cur.to] # both_stacks[both_cur.to]

=============================================================================
